---- MODULE Spec2Model ----
(***************************************************************************)
(* The batched sprite render pipeline of pixel-forge                       *)
(* (packages/pixel-forge/src/renderer/pipeline/2d-pixel/pipeline.ts, the   *)
(* definition starting at line 350).  One pipeline object is modelled: the *)
(* closure state created by pipeline() and the render pass it returns,     *)
(* stepped statement group by statement group.                             *)
(***************************************************************************)
EXTENDS Integers, Sequences, FiniteSets, TLC

\* ---------------------------------------------------------------- bounds
\* longest sprite list handed to one render call
MaxSprites == 4
\* number of render calls made on the pipeline
MaxFrames == 2
\* batch capacity; 10_000 in the source, scaled so that a batch can fill up
MAX_SPRITES_PER_BATCH == 2

\* ------------------------------------------------------- program constants
INDICES_PER_SPRITE == 6

Textures == {"A", "B"}
ZValues == {0, 1}

\* a sprite as far as the batcher reads it, plus the z hint it never reads
Sprite == [texture : Textures, z : ZValues]

SpriteLists == UNION {[1..n -> Sprite] : n \in 0..MaxSprites}

NoBindGroup == [id |-> 0, view |-> "none"]

\* fixedList before the first call, and once two calls got different lists
NoList == [state |-> "none", list |-> <<>>]

Varied == [state |-> "varied", list |-> <<>>]

Fixed(list) == [state |-> "fixed", list |-> list]

\* what fixedList becomes when a call is made with the given list
NextFixedList(fixed, list) ==
    IF fixed = NoList \/ fixed = Fixed(list) THEN Fixed(list) ELSE Varied

\* -------------------------------------------------------------- helpers
Last(s) == s[Len(s)]

Front(s) == SubSeq(s, 1, Len(s) - 1)

Max(a, b) == IF a >= b THEN a ELSE b

Min(a, b) == IF a <= b THEN a ELSE b

\* new Float32Array(MAX_SPRITES_PER_BATCH * FLOATS_PER_SPRITE): one region per
\* instance slot, 0 = still zero-filled, i = holds the floats of input sprite i
NewVertices == [k \in 0..(MAX_SPRITES_PER_BATCH - 1) |-> 0]

\* the offset i left at 0: every sprite stored over the first one
WriteVertices_FirstSlot(vertices, slot, i) == [vertices EXCEPT ![0] = i]

\* the 32 indexed stores of one sprite; a store outside a typed array is dropped
WriteVertices(vertices, slot, i) ==
    IF slot \in DOMAIN vertices THEN [vertices EXCEPT ![slot] = i] ELSE vertices

\* batch = { instances: 0, vertices: new Float32Array(..), texture }
NewBatch(texture) ==
    [instances |-> 0, vertices |-> NewVertices, texture |-> texture]

\* a lookup that ignores the key and lands on the first entry
BatchMapIndex_AnyEntry(m, texture) == IF Len(m) > 0 THEN 1 ELSE 0

\* batchMap.get(texture): position of the entry in insertion order, 0 if absent
BatchMapIndex(m, texture) ==
    IF \E k \in 1..Len(m) : m[k].texture = texture
    THEN CHOOSE k \in 1..Len(m) : m[k].texture = texture
    ELSE 0

\* if (!batches) { batches = []; batchMap.set(texture, batches) }
BatchMapEnsure(m, texture) ==
    IF BatchMapIndex(m, texture) = 0
    THEN Append(m, [texture |-> texture, batches |-> <<>>])
    ELSE m

\* the capacity test left out: only !batch
NeedsNewBatch_NoCapacityTest(batches) == batches = <<>>

\* the capacity test off by one: batch.instances > MAX_SPRITES_PER_BATCH
NeedsNewBatch_OffByOne(batches) ==
    \/ batches = <<>>
    \/ Last(batches).instances > MAX_SPRITES_PER_BATCH

\* !batch || batch.instances === MAX_SPRITES_PER_BATCH
NeedsNewBatch(batches) ==
    \/ batches = <<>>
    \/ Last(batches).instances = MAX_SPRITES_PER_BATCH

\* a fresh batch pushed for every sprite
SelectBatch_AlwaysNew(batches, texture) == Append(batches, NewBatch(texture))

\* batches.at(-1), after a fresh batch was pushed when one was needed
SelectBatch(batches, texture) ==
    IF NeedsNewBatch(batches) THEN Append(batches, NewBatch(texture)) ELSE batches

\* the vertex writer without batch.instances++
WriteSprite_NoIncrement(batch, i) ==
    [batch EXCEPT !.vertices = WriteVertices(batch.vertices, batch.instances, i)]

\* the vertex writer followed by batch.instances++
WriteSprite(batch, i) ==
    [batch EXCEPT !.vertices = WriteVertices(batch.vertices, batch.instances, i),
                  !.instances = batch.instances + 1]

\* one iteration of the batcher loop on batchMap, for input sprite number i
AddSprite(m, i, texture) ==
    LET m1 == BatchMapEnsure(m, texture)
        k  == BatchMapIndex(m1, texture)
        bs == SelectBatch(m1[k].batches, texture)
        b  == WriteSprite(Last(bs), i)
    IN  [m1 EXCEPT ![k].batches = Append(Front(bs), b)]

Reverse(s) == [k \in 1..Len(s) |-> s[Len(s) + 1 - k]]

\* the inner loop walking each texture's batches from the newest to the oldest
RECURSIVE DrawOrder_NewestBatchFirst(_)
DrawOrder_NewestBatchFirst(m) ==
    IF m = <<>> THEN <<>>
    ELSE Reverse(m[1].batches) \o DrawOrder_NewestBatchFirst(Tail(m))

\* the outer loop walking the textures from the last inserted to the first
RECURSIVE DrawOrder_LastTextureFirst(_)
DrawOrder_LastTextureFirst(m) ==
    IF m = <<>> THEN <<>>
    ELSE DrawOrder_LastTextureFirst(Tail(m)) \o m[1].batches

\* for (const batches of batchMap.values()) for (const batch of batches)
RECURSIVE DrawOrder(_)
DrawOrder(m) ==
    IF m = <<>> THEN <<>> ELSE m[1].batches \o DrawOrder(Tail(m))

\* the cache never consulted: a bind group for every sprite
MustCreateBindGroup_Always(cache, texture) == TRUE

\* the batcher never creating a bind group
MustCreateBindGroup_Never(cache, texture) == FALSE

\* if (!textureBindGroup) in the batcher loop
MustCreateBindGroup(cache, texture) == cache[texture] = NoBindGroup

\* device.createBindGroup({.. resource: texture.createView() ..})
CreateBindGroup(n, texture) == [id |-> n, view |-> texture]

\* the map rebuilt around the new entry, the older entries lost
CacheSet_Replaces(cache, texture, bindGroup) ==
    [t \in DOMAIN cache |-> IF t = texture THEN bindGroup ELSE NoBindGroup]

\* textureBindGroups.set(texture, textureBindGroup)
CacheSet(cache, texture, bindGroup) == [cache EXCEPT ![texture] = bindGroup]

\* a descriptor that keeps the previous frame instead of clearing it
RenderPassDescriptor_Load == [loadOp |-> "load", storeOp |-> "store"]

\* colorAttachments[0] of the render pass descriptor
RenderPassDescriptor == [loadOp |-> "clear", storeOp |-> "store"]

\* the pool never consulted: a new buffer for every batch
PoolEmpty_Always(pool) == TRUE

\* the last pooled buffer held back: a new one allocated in its place
PoolEmpty_OneLeft(pool) == Len(pool) <= 1

\* vertexBuffers.pop() returned undefined
PoolEmpty(pool) == pool = <<>>

\* what a buffer holds in an instance slot that no upload of the current call
\* has reached: floats of some earlier frame
Stale == -1

\* contents of the buffer a batch is given: a new buffer is zero-filled, a
\* pooled one holds whatever was uploaded to it before
BufferBefore(alloc) ==
    [k \in DOMAIN NewVertices |-> IF alloc THEN 0 ELSE Stale]

\* an upload of the written instances alone, the rest of the buffer left as
\* it was
Upload_WrittenPart(old, vertices) ==
    [k \in DOMAIN old |->
        IF k \in DOMAIN vertices /\ vertices[k] # 0 THEN vertices[k] ELSE old[k]]

\* device.queue.writeBuffer(vertexBuffer, 0, batch.vertices): the whole array
\* from offset 0
Upload(old, vertices) ==
    [k \in DOMAIN old |-> IF k \in DOMAIN vertices THEN vertices[k] ELSE old[k]]

\* the whole index buffer drawn whatever the batch holds
IndexCount_Capacity(batch) == 6 * MAX_SPRITES_PER_BATCH

\* passEncoder.drawIndexed(6 * batch.instances)
IndexCount(batch) == 6 * batch.instances

\* every iteration pushing the whole used list: vertexBuffers.push(...used)
ReturnOne_All(pool, used, k) == pool \o used

\* the used buffer not pushed back
ReturnOne_Dropped(pool, used, k) == pool

\* for (const vertexBuffer of usedVertexBuffers) vertexBuffers.push(vertexBuffer)
ReturnOne(pool, used, k) == Append(pool, used[k])

\* ------------------------------------------------------ the vertex writer
\* Numbers are exact fractions [n, d] in lowest terms with d > 0; the source
\* computes in floating point and stores 32-bit floats.
RECURSIVE GCD(_, _)
GCD(a, b) == IF b = 0 THEN a ELSE GCD(b, a % b)

Abs(a) == IF a < 0 THEN 0 - a ELSE a

Rat(n, d) ==
    LET g == GCD(Abs(n), Abs(d))
        sign == IF d < 0 THEN 0 - 1 ELSE 1
    IN  [n |-> (sign * n) \div g, d |-> (sign * d) \div g]

Num(i) == [n |-> i, d |-> 1]

Half == [n |-> 1, d |-> 2]

RAdd(a, b) == Rat(a.n * b.d + b.n * a.d, a.d * b.d)

RSub(a, b) == Rat(a.n * b.d - b.n * a.d, a.d * b.d)

RMul(a, b) == Rat(a.n * b.n, a.d * b.d)

\* a / b for b # 0
RDiv(a, b) == Rat(a.n * b.d, a.d * b.n)

FLOATS_PER_VERTEX == 8

FLOATS_PER_SPRITE == 4 * FLOATS_PER_VERTEX

\* sprite.rotation in quarter turns (units of pi / 2), where sine and cosine
\* are exact
Rotations == 0..3

Cos(q) == Num(<<1, 0, 0 - 1, 0>>[(q % 4) + 1])

Sin(q) == Num(<<0, 1, 0, 0 - 1>>[(q % 4) + 1])

WriterTextures == {[width |-> 4, height |-> 2], [width |-> 2, height |-> 4]}

\* the sprites handed to the vertex writer
WriterSprites ==
    {s \in [x : {0, 3}, y : {0 - 2, 1}, width : {2, 4}, height : {2},
            rotation : Rotations,
            origin : {<<Num(0), Num(0)>>, <<Half, Half>>, <<Num(1), Num(1)>>,
                      <<Num(0), Num(1)>>},
            texture : WriterTextures,
            frame : [x : {0, 1}, y : {0}, width : {1, 2, 4}, height : {1, 2, 4}],
            color : {<<Num(1), Num(1), Num(1)>>, <<Half, Num(0), Num(1)>>},
            alpha : {Num(1), Half}] :
        \/ /\ s.frame.x = 0
           /\ s.frame.width = s.texture.width
           /\ s.frame.height = s.texture.height
        \/ s.frame.x = 1 /\ s.frame.width = 1 /\ s.frame.height = 1}

\* rotate(point, origin, angle) of math/vec2: the standard rotation matrix
\* about the pivot
Rotate(point, pivot, q) ==
    LET dx == RSub(point[1], pivot[1])
        dy == RSub(point[2], pivot[2])
    IN  <<RAdd(pivot[1], RSub(RMul(dx, Cos(q)), RMul(dy, Sin(q)))),
          RAdd(pivot[2], RAdd(RMul(dx, Sin(q)), RMul(dy, Cos(q))))>>

\* the corners with the right and bottom edges exchanged
UnrotatedCorners_Swapped(sprite) ==
    <<<<Num(sprite.x), Num(sprite.y)>>,
      <<Num(sprite.x + sprite.height), Num(sprite.y)>>,
      <<Num(sprite.x + sprite.height), Num(sprite.y + sprite.width)>>,
      <<Num(sprite.x), Num(sprite.y + sprite.width)>>>>

\* topLeft, topRight, bottomRight, bottomLeft before rotation
UnrotatedCorners(sprite) ==
    <<<<Num(sprite.x), Num(sprite.y)>>,
      <<Num(sprite.x + sprite.width), Num(sprite.y)>>,
      <<Num(sprite.x + sprite.width), Num(sprite.y + sprite.height)>>,
      <<Num(sprite.x), Num(sprite.y + sprite.height)>>>>

\* the pivot with the origin taken as pixels instead of a share of the size
Pivot_Unscaled(sprite) ==
    <<RAdd(Num(sprite.x), sprite.origin[1]),
      RAdd(Num(sprite.y), sprite.origin[2])>>

\* const origin = [x + origin[0] * width, y + origin[1] * height]
Pivot(sprite) ==
    <<RAdd(Num(sprite.x), RMul(sprite.origin[1], Num(sprite.width))),
      RAdd(Num(sprite.y), RMul(sprite.origin[2], Num(sprite.height)))>>

\* if (sprite.rotation)
MustRotate(sprite) == sprite.rotation # 0

\* the four corners as written: rotated about the pivot when rotation is set
Corners(sprite) ==
    LET c == UnrotatedCorners(sprite)
    IN  IF MustRotate(sprite)
        THEN [j \in 1..4 |-> Rotate(c[j], Pivot(sprite), sprite.rotation)]
        ELSE c

\* u without the frame's offset in the texture
TexCoordU_NoOffset(sprite) ==
    <<Num(0), RDiv(Num(sprite.frame.width), Num(sprite.texture.width))>>

\* const u = [frame.x / texture.width, (frame.x + frame.width) / texture.width]
TexCoordU(sprite) ==
    <<RDiv(Num(sprite.frame.x), Num(sprite.texture.width)),
      RDiv(Num(sprite.frame.x + sprite.frame.width), Num(sprite.texture.width))>>

\* const v = [frame.y / texture.height, (frame.y + frame.height) / texture.height]
TexCoordV(sprite) ==
    <<RDiv(Num(sprite.frame.y), Num(sprite.texture.height)),
      RDiv(Num(sprite.frame.y + sprite.frame.height), Num(sprite.texture.height))>>

\* a vertex with the tint left out: white and opaque
VertexFloats_White(position, u, v, sprite) ==
    <<position[1], position[2], u, v, Num(1), Num(1), Num(1), Num(1)>>

\* the 8 floats of one vertex: x, y, u, v, r, g, b, a
VertexFloats(position, u, v, sprite) ==
    <<position[1], position[2], u, v,
      sprite.color[1], sprite.color[2], sprite.color[3], sprite.alpha>>

\* the 32 floats of a sprite in the order of the stores
SpriteFloats(sprite) ==
    LET c == Corners(sprite)
        u == TexCoordU(sprite)
        v == TexCoordV(sprite)
    IN  VertexFloats(c[1], u[1], v[1], sprite)
          \o VertexFloats(c[2], u[2], v[1], sprite)
          \o VertexFloats(c[3], u[2], v[2], sprite)
          \o VertexFloats(c[4], u[1], v[2], sprite)

\* Float32Array.BYTES_PER_ELEMENT
BYTES_PER_ELEMENT == 4

\* floats of a vertex format: 'float32x2', 'float32x4'
FormatFloats(format) == IF format = "float32x2" THEN 2 ELSE 4

\* the color attribute placed right after u, one float early
vertexBufferLayout_ColorEarly ==
    [arrayStride |-> FLOATS_PER_VERTEX * BYTES_PER_ELEMENT,
     attributes |-> <<
        [shaderLocation |-> 0, offset |-> 0, format |-> "float32x2"],
        [shaderLocation |-> 1, offset |-> 2 * BYTES_PER_ELEMENT,
         format |-> "float32x2"],
        [shaderLocation |-> 2, offset |-> 3 * BYTES_PER_ELEMENT,
         format |-> "float32x4"]>>,
     stepMode |-> "vertex"]

\* const vertexBufferLayout: GPUVertexBufferLayout
vertexBufferLayout ==
    [arrayStride |-> FLOATS_PER_VERTEX * BYTES_PER_ELEMENT,
     attributes |-> <<
        [shaderLocation |-> 0, offset |-> 0, format |-> "float32x2"],
        [shaderLocation |-> 1, offset |-> 2 * BYTES_PER_ELEMENT,
         format |-> "float32x2"],
        [shaderLocation |-> 2, offset |-> 4 * BYTES_PER_ELEMENT,
         format |-> "float32x4"]>>,
     stepMode |-> "vertex"]

\* the offset taken per vertex instead of per sprite
FloatOffset_PerVertex(instances) == instances * FLOATS_PER_VERTEX

\* const i = batch.instances * FLOATS_PER_SPRITE
FloatOffset(instances) == instances * FLOATS_PER_SPRITE

\* new Float32Array(MAX_SPRITES_PER_BATCH * FLOATS_PER_SPRITE), float by float
NewFloatArray ==
    [p \in 0..(MAX_SPRITES_PER_BATCH * FLOATS_PER_SPRITE - 1) |-> Num(0)]

\* batch.vertices[j + i] = value for the 32 values; a store outside the array
\* is dropped
StoreFloats(vertices, i, floats) ==
    [p \in DOMAIN vertices |->
        IF p - i \in 0..(Len(floats) - 1) THEN floats[p - i + 1] ELSE vertices[p]]

\* the vertex writer on a batch, followed by batch.instances++
WriteSpriteFloats(batch, sprite) ==
    [batch EXCEPT
        !.vertices = StoreFloats(batch.vertices, FloatOffset(batch.instances),
                                 SpriteFloats(sprite)),
        !.instances = batch.instances + 1]

\* ------------------------------------------------------------ index data
\* batch capacity as the source has it
SOURCE_MAX_SPRITES_PER_BATCH == 10000

\* a store into a Uint16Array keeps the low 16 bits
Uint16(value) == value % 65536

\* the second triangle closed on vertex 1 instead of vertex 0
QuadIndex_OpenQuad(i, j) == i * 4 + <<0, 1, 2, 2, 3, 1>>[j + 1]

\* the value stored at indices[i * INDICES_PER_SPRITE + j]
QuadIndex(i, j) == i * 4 + <<0, 1, 2, 2, 3, 0>>[j + 1]

\* the Uint16Array after the loop over i < MAX_SPRITES_PER_BATCH
BuildIndices ==
    [p \in 0..(MAX_SPRITES_PER_BATCH * INDICES_PER_SPRITE - 1) |->
        Uint16(QuadIndex(p \div INDICES_PER_SPRITE, p % INDICES_PER_SPRITE))]

\* a missing bind group let through to the draw call
MissingBindGroup_Never(bindGroup) == FALSE

\* if (!textureBindGroup) in the draw loop
MissingBindGroup(bindGroup) == bindGroup = NoBindGroup

\* -------------------------------------------------------- createContext
\* what the browser answers to createContext: whether requestAdapter resolves
\* to an adapter, whether requestDevice resolves, whether getContext('webgpu')
\* yields a context, and the window's size and pixel ratio
ContextEnvs ==
    [adapter : BOOLEAN, device : BOOLEAN, webgpu : BOOLEAN,
     devicePixelRatio : {1, 2}, innerWidth : {320, 800}, innerHeight : {240, 600}]

\* the calls createContext has made so far
NoContextCalls ==
    [requestAdapter |-> 0, requestDevice |-> 0, getContext |-> 0,
     configure |-> 0, projectionViewMatrix |-> 0]

\* no value has come out of createContext
NoContext == [kind |-> "none"]

\* if (!adapter)
AdapterMissing(env) == ~env.adapter

\* the context test left out
ContextMissing_Never(env) == FALSE

\* if (!context)
ContextMissing(env) == ~env.webgpu

\* canvas.width, canvas.height = window.inner.. * devicePixelRatio
CanvasSize(env) ==
    [width |-> env.innerWidth * env.devicePixelRatio,
     height |-> env.innerHeight * env.devicePixelRatio]

\* the WebGPUContext value createContext resolves to
ContextValue(env) ==
    [kind |-> "context", alphaMode |-> "premultiplied", canvas |-> CanvasSize(env)]

Rejected(message) == [kind |-> "error", message |-> message]

\* ---------------------------------------------------------------- state
VARIABLES
    pc,                 \* position of the render pass
    sprites,            \* argument of the current render call
    cursor,             \* loop position: sprite, batch or used buffer
    batchMap,           \* Map<GPUTexture, Batch[]> of the current call
    textureBindGroups,  \* Map<GPUTexture, GPUBindGroup> of the pipeline
    vertexBuffers,      \* the pool
    usedVertexBuffers,  \* buffers handed out in the current call
    allocated,          \* vertexBufferAlloc calls so far; buffers are 1..allocated
    created,            \* createBindGroup calls per texture, over all calls
    passes,             \* beginRenderPass descriptors of the current call
    passEnded,          \* passEncoder.end() calls of the current call
    submitted,          \* queue.submit calls of the current call (buffers each)
    drawCalls,          \* drawIndexed calls of the current call, with bindings
    call,               \* per-call observations of the device
    threw,              \* the current call ended with the thrown error
    seen,               \* textures of all sprites the batcher has processed
    frames,             \* render calls that have returned
    peakBatches,        \* most batches of any one returned call
    poolEnds,           \* pool size at the return of the last call and the one before
    fixedList,          \* the list every call so far was given, if there is one
    indexBuffer,        \* contents of the shared index buffer
    faults,             \* textures createBindGroup hands back nothing for
    wpc,                \* the vertex writer taken alone: its position,
    wSprite,            \*   the sprite it is given,
    wBatch,             \*   the batch it writes into,
    wRotateCalls,       \*   and its calls of rotate()
    cpc,                \* createContext: its position,
    cenv,               \*   the browser it runs in,
    clog,               \*   the calls it has made,
    cresult             \*   and what its promise settled to

vars == <<pc, sprites, cursor, batchMap, textureBindGroups, vertexBuffers,
          usedVertexBuffers, allocated, created, passes, passEnded, submitted,
          drawCalls, call, threw, seen, frames, peakBatches, poolEnds,
          fixedList, indexBuffer, faults, wpc, wSprite, wBatch, wRotateCalls,
          cpc, cenv, clog, cresult>>

writerVars == <<wpc, wSprite, wBatch, wRotateCalls>>

contextVars == <<cpc, cenv, clog, cresult>>

pipelineVars == <<pc, sprites, cursor, batchMap, textureBindGroups,
                  vertexBuffers, usedVertexBuffers, allocated, created, passes,
                  passEnded, submitted, drawCalls, call, threw, seen, frames,
                  peakBatches, poolEnds, fixedList, indexBuffer, faults>>

NewCall(pool) ==
    [poolAtStart |-> Len(pool), allocs |-> 0, pops |-> 0, creates |-> 0]

InitPipeline ==
    /\ pc = "idle"
    /\ sprites = <<>>
    /\ cursor = 0
    /\ batchMap = <<>>
    /\ textureBindGroups = [t \in Textures |-> NoBindGroup]
    /\ vertexBuffers = <<1>>
    /\ usedVertexBuffers = <<>>
    /\ allocated = 1
    /\ created = [t \in Textures |-> 0]
    /\ passes = <<>>
    /\ passEnded = 0
    /\ submitted = <<>>
    /\ drawCalls = <<>>
    /\ call = NewCall(<<1>>)
    /\ threw = FALSE
    /\ seen = {}
    /\ frames = 0
    /\ peakBatches = 0
    /\ poolEnds = <<>>
    /\ fixedList = NoList
    /\ indexBuffer = BuildIndices

\* the vertex writer is not run on its own
WriterOff ==
    /\ wpc = "off"
    /\ wSprite = <<>>
    /\ wBatch = <<>>
    /\ wRotateCalls = 0

\* createContext is not run
ContextOff ==
    /\ cpc = "off"
    /\ cenv = <<>>
    /\ clog = NoContextCalls
    /\ cresult = NoContext

\* a device whose createBindGroup returns a bind group for every texture
SoundDevice == faults = {}

Init ==
    /\ InitPipeline
    /\ SoundDevice
    /\ WriterOff
    /\ ContextOff

\* a render pass that suspends in its draw loop, the next frame's call coming
\* in before it resumes
RenderStart_Reentrant ==
    /\ pc \in {"idle", "drawing"}
    /\ frames < MaxFrames
    /\ ~threw
    /\ \E list \in SpriteLists :
          /\ sprites' = list
          /\ fixedList' = NextFixedList(fixedList, list)
    /\ call' = NewCall(vertexBuffers)
    /\ pc' = "batching"
    /\ cursor' = 1
    /\ batchMap' = <<>>
    /\ usedVertexBuffers' = <<>>
    /\ passes' = <<>>
    /\ passEnded' = 0
    /\ submitted' = <<>>
    /\ drawCalls' = <<>>
    /\ UNCHANGED <<textureBindGroups, vertexBuffers, allocated, created, seen,
                   frames, peakBatches, poolEnds, threw>>
    /\ UNCHANGED <<indexBuffer, faults, writerVars, contextVars>>

\* renderPass(list): const batchMap = new Map(); the caller's draw loop asks
\* for its next frame after renderPass returns, so a call that threw is the last
RenderStart ==
    /\ pc = "idle"
    /\ frames < MaxFrames
    /\ ~threw
    /\ \E list \in SpriteLists :
          /\ sprites' = list
          /\ fixedList' = NextFixedList(fixedList, list)
    /\ call' = NewCall(vertexBuffers)
    /\ pc' = "batching"
    /\ cursor' = 1
    /\ batchMap' = <<>>
    /\ usedVertexBuffers' = <<>>
    /\ passes' = <<>>
    /\ passEnded' = 0
    /\ submitted' = <<>>
    /\ drawCalls' = <<>>
    /\ UNCHANGED <<textureBindGroups, vertexBuffers, allocated, created, seen,
                   frames, peakBatches, poolEnds, threw>>
    /\ UNCHANGED <<indexBuffer, faults, writerVars, contextVars>>

\* one iteration of for (const sprite of sprites)
BatchSprite ==
    /\ pc = "batching"
    /\ cursor <= Len(sprites)
    /\ LET texture == sprites[cursor].texture
       IN  /\ IF MustCreateBindGroup(textureBindGroups, texture)
              THEN /\ texture \notin faults
                   /\ textureBindGroups' =
                        CacheSet(textureBindGroups, texture,
                                 CreateBindGroup(created[texture] + 1, texture))
                   /\ created' = [created EXCEPT ![texture] = @ + 1]
                   /\ call' = [call EXCEPT !.creates = @ + 1]
              ELSE UNCHANGED <<textureBindGroups, created, call>>
           /\ batchMap' = AddSprite(batchMap, cursor, texture)
           /\ seen' = seen \cup {texture}
    /\ cursor' = cursor + 1
    /\ UNCHANGED <<pc, sprites, vertexBuffers, usedVertexBuffers, allocated,
                   passes, passEnded, submitted, drawCalls, threw, frames, peakBatches, poolEnds,
                   fixedList>>
    /\ UNCHANGED <<indexBuffer, faults, writerVars, contextVars>>

\* the pass begun while the batcher loop still has sprites to go
BeginPass_Early ==
    /\ pc = "batching"
    /\ cursor >= 1
    /\ passes' = Append(passes, RenderPassDescriptor)
    /\ usedVertexBuffers' = <<>>
    /\ pc' = "drawing"
    /\ cursor' = 1
    /\ UNCHANGED <<sprites, batchMap, textureBindGroups, vertexBuffers,
                   allocated, created, passEnded, submitted, drawCalls, call,
                   threw, seen, frames, peakBatches,
                   poolEnds, fixedList>>
    /\ UNCHANGED <<indexBuffer, faults, writerVars, contextVars>>

\* getCurrentTexture().createView(), createCommandEncoder(), beginRenderPass(),
\* const usedVertexBuffers = []
BeginPass ==
    /\ pc = "batching"
    /\ cursor > Len(sprites)
    /\ passes' = Append(passes, RenderPassDescriptor)
    /\ usedVertexBuffers' = <<>>
    /\ pc' = "drawing"
    /\ cursor' = 1
    /\ UNCHANGED <<sprites, batchMap, textureBindGroups, vertexBuffers,
                   allocated, created, passEnded, submitted, drawCalls, call,
                   threw, seen, frames, peakBatches,
                   poolEnds, fixedList>>
    /\ UNCHANGED <<indexBuffer, faults, writerVars, contextVars>>

\* one iteration of the draw loop
DrawBatch ==
    /\ pc = "drawing"
    /\ cursor <= Len(DrawOrder(batchMap))
    /\ LET batch == DrawOrder(batchMap)[cursor]
           alloc == PoolEmpty(vertexBuffers)
           vertexBuffer == IF alloc THEN allocated + 1 ELSE Last(vertexBuffers)
           textureBindGroup == textureBindGroups[batch.texture]
       IN  /\ vertexBuffers' = IF alloc THEN vertexBuffers ELSE Front(vertexBuffers)
           /\ allocated' = IF alloc THEN allocated + 1 ELSE allocated
           /\ call' = IF alloc THEN [call EXCEPT !.allocs = @ + 1]
                               ELSE [call EXCEPT !.pops = @ + 1]
           /\ usedVertexBuffers' = Append(usedVertexBuffers, vertexBuffer)
           /\ IF MissingBindGroup(textureBindGroup)
              THEN /\ threw' = TRUE
                   /\ pc' = "idle"
                   /\ UNCHANGED <<drawCalls, cursor>>
              ELSE /\ drawCalls' = Append(drawCalls,
                        [vertexBuffer |-> vertexBuffer,
                         uploaded |-> Upload(BufferBefore(alloc), batch.vertices),
                         bindGroup |-> textureBindGroup,
                         texture |-> batch.texture,
                         indexCount |-> IndexCount(batch)])
                   /\ cursor' = cursor + 1
                   /\ UNCHANGED <<threw, pc>>
    /\ UNCHANGED <<sprites, batchMap, textureBindGroups, created, passes,
                   passEnded, submitted, seen, frames, peakBatches,
                   poolEnds, fixedList>>
    /\ UNCHANGED <<indexBuffer, faults, writerVars, contextVars>>

\* the pass left open: the draw loop falls through to the submit
EndPass_Skipped ==
    /\ pc = "drawing"
    /\ cursor > Len(DrawOrder(batchMap))
    /\ pc' = "submitting"
    /\ UNCHANGED <<sprites, cursor, batchMap, textureBindGroups, vertexBuffers,
                   usedVertexBuffers, allocated, created, passes, passEnded,
                   submitted, drawCalls, call, threw, seen, frames,
                   peakBatches, poolEnds, fixedList>>
    /\ UNCHANGED <<indexBuffer, faults, writerVars, contextVars>>

\* passEncoder.end()
EndPass ==
    /\ pc = "drawing"
    /\ cursor > Len(DrawOrder(batchMap))
    /\ passEnded' = passEnded + 1
    /\ pc' = "submitting"
    /\ UNCHANGED <<sprites, cursor, batchMap, textureBindGroups, vertexBuffers,
                   usedVertexBuffers, allocated, created, passes, submitted,
                   drawCalls, call, threw, seen, frames, peakBatches,
                   poolEnds, fixedList>>
    /\ UNCHANGED <<indexBuffer, faults, writerVars, contextVars>>

\* device.queue.submit([commandEncoder.finish()])
Submit ==
    /\ pc = "submitting"
    /\ submitted' = Append(submitted, 1)
    /\ pc' = "returning"
    /\ cursor' = 1
    /\ UNCHANGED <<sprites, batchMap, textureBindGroups, vertexBuffers,
                   usedVertexBuffers, allocated, created, passes, passEnded,
                   drawCalls, call, threw, seen, frames, peakBatches,
                   poolEnds, fixedList>>
    /\ UNCHANGED <<indexBuffer, faults, writerVars, contextVars>>

\* one iteration of the loop that pushes the used buffers back
ReturnBuffer ==
    /\ pc = "returning"
    /\ cursor <= Len(usedVertexBuffers)
    /\ vertexBuffers' = ReturnOne(vertexBuffers, usedVertexBuffers, cursor)
    /\ cursor' = cursor + 1
    /\ UNCHANGED <<pc, sprites, batchMap, textureBindGroups, usedVertexBuffers,
                   allocated, created, passes, passEnded, submitted, drawCalls,
                   call, threw, seen, frames, peakBatches,
                   poolEnds, fixedList>>
    /\ UNCHANGED <<indexBuffer, faults, writerVars, contextVars>>

\* the render pass returns to its caller; its locals are gone
RenderReturn ==
    /\ pc = "returning"
    /\ cursor > Len(usedVertexBuffers)
    /\ pc' = "idle"
    /\ frames' = frames + 1
    /\ peakBatches' = Max(peakBatches, Len(DrawOrder(batchMap)))
    /\ poolEnds' = IF poolEnds = <<>> THEN <<Len(vertexBuffers)>>
                   ELSE <<Last(poolEnds), Len(vertexBuffers)>>
    /\ sprites' = <<>>
    /\ cursor' = 0
    /\ batchMap' = <<>>
    /\ usedVertexBuffers' = <<>>
    /\ passes' = <<>>
    /\ passEnded' = 0
    /\ submitted' = <<>>
    /\ drawCalls' = <<>>
    /\ call' = NewCall(vertexBuffers)
    /\ UNCHANGED <<textureBindGroups, vertexBuffers, allocated, created, threw,
                   seen, fixedList>>
    /\ UNCHANGED <<indexBuffer, faults, writerVars, contextVars>>

Next ==
    \/ RenderStart
    \/ BatchSprite
    \/ BeginPass
    \/ DrawBatch
    \/ EndPass
    \/ Submit
    \/ ReturnBuffer
    \/ RenderReturn

Spec == Init /\ [][Next]_vars

\* ------------------------------- a device whose createBindGroup can fail
\* one iteration of for (const sprite of sprites) in which createBindGroup
\* hands back nothing: the cache entry is set to that nothing
BatchSpriteNoBindGroup ==
    /\ pc = "batching"
    /\ cursor <= Len(sprites)
    /\ LET texture == sprites[cursor].texture
       IN  /\ texture \in faults
           /\ MustCreateBindGroup(textureBindGroups, texture)
           /\ textureBindGroups' = CacheSet(textureBindGroups, texture, NoBindGroup)
           /\ created' = [created EXCEPT ![texture] = @ + 1]
           /\ call' = [call EXCEPT !.creates = @ + 1]
           /\ batchMap' = AddSprite(batchMap, cursor, texture)
           /\ seen' = seen \cup {texture}
    /\ cursor' = cursor + 1
    /\ UNCHANGED <<pc, sprites, vertexBuffers, usedVertexBuffers, allocated,
                   passes, passEnded, submitted, drawCalls, threw, frames,
                   peakBatches, poolEnds, fixedList>>
    /\ UNCHANGED <<indexBuffer, faults, writerVars, contextVars>>

NextFaulty ==
    \/ RenderStart
    \/ BatchSprite
    \/ BatchSpriteNoBindGroup
    \/ BeginPass
    \/ DrawBatch
    \/ EndPass
    \/ Submit
    \/ ReturnBuffer
    \/ RenderReturn

\* a device whose createBindGroup hands back nothing for some textures
FaultyDevice == faults \in (SUBSET Textures) \ {{}}

InitFaulty ==
    /\ InitPipeline
    /\ FaultyDevice
    /\ WriterOff
    /\ ContextOff

SpecFaulty == InitFaulty /\ [][NextFaulty]_vars

\* ---------------------------------------------- the vertex writer taken alone
\* the floats standing in the slots filled before the sprite at hand
Earlier == Num(7)

\* a batch with k slots filled already, handed to the writer with any sprite
InitWriter ==
    /\ InitPipeline
    /\ SoundDevice
    /\ wpc = "ready"
    /\ wSprite \in WriterSprites
    /\ \E k \in 0..(MAX_SPRITES_PER_BATCH - 1) :
          wBatch = [instances |-> k,
                    vertices |-> [p \in DOMAIN NewFloatArray |->
                                    IF p < k * FLOATS_PER_SPRITE
                                    THEN Earlier ELSE NewFloatArray[p]],
                    texture |-> "A"]
    /\ wRotateCalls = 0
    /\ ContextOff

\* the corner computation, the 32 stores and batch.instances++ for one sprite
WriterWrite ==
    /\ wpc = "ready"
    /\ wpc' = "written"
    /\ wBatch' = WriteSpriteFloats(wBatch, wSprite)
    /\ wRotateCalls' = IF MustRotate(wSprite) THEN 4 ELSE 0
    /\ UNCHANGED <<wSprite, pipelineVars, contextVars>>

NextWriter == WriterWrite

SpecWriter == InitWriter /\ [][NextWriter]_vars

\* ------------------------------------------------------------ properties
\* the current render call has done all its work and is about to return
AtReturn == pc = "returning" /\ cursor > Len(usedVertexBuffers)

\* the draw loop of the current call has finished
DrawingDone == pc \in {"submitting", "returning"}

CountFor(list, t) == Cardinality({i \in DOMAIN list : list[i].texture = t})

CeilDiv(n, d) == (n + d - 1) \div d

RECURSIVE SumOfChunks(_, _)
SumOfChunks(S, list) ==
    IF S = {} THEN 0
    ELSE LET t == CHOOSE x \in S : TRUE
         IN  CeilDiv(CountFor(list, t), MAX_SPRITES_PER_BATCH)
               + SumOfChunks(S \ {t}, list)

TexturesOf(list) == {list[i].texture : i \in DOMAIN list}

\* input sprite i sits at instance index k of the batch of draw call d
Placed(i, d, k) ==
    /\ d \in 1..Len(drawCalls)
    /\ k \in DOMAIN drawCalls[d].uploaded
    /\ 6 * k < drawCalls[d].indexCount
    /\ drawCalls[d].uploaded[k] = i

Slots == 0..(MAX_SPRITES_PER_BATCH - 1)

FirstOccurrence(t) ==
    CHOOSE i \in DOMAIN sprites :
        sprites[i].texture = t /\ \A j \in 1..(i - 1) : sprites[j].texture # t

\* C1: once the draw loop of a render call is over, the number of drawIndexed
\* calls of the call is the sum over the distinct textures of the list of
\* ceil(n_t / MAX_SPRITES_PER_BATCH)
C1_DrawCallCount ==
    DrawingDone => Len(drawCalls) = SumOfChunks(TexturesOf(sprites), sprites)

C1_Witness ==
    /\ AtReturn
    /\ Cardinality(TexturesOf(sprites)) = 2
    /\ \E t \in Textures : CountFor(sprites, t) > MAX_SPRITES_PER_BATCH
    /\ Len(drawCalls) = 3

\* C2: every sprite written into a batch has the batch's texture, and the draw
\* call of a batch binds at slot 1 the cached bind group of that texture, which
\* is a bind group made of that texture's view
C2_OneTexturePerBatch ==
    /\ \A e \in 1..Len(batchMap) : \A b \in 1..Len(batchMap[e].batches) :
          LET batch == batchMap[e].batches[b]
          IN  \A k \in DOMAIN batch.vertices :
                 batch.vertices[k] # 0 =>
                    sprites[batch.vertices[k]].texture = batch.texture
    /\ \A d \in 1..Len(drawCalls) :
             LET batch == DrawOrder(batchMap)[d]
             IN  /\ drawCalls[d].uploaded = batch.vertices
                 /\ drawCalls[d].bindGroup # NoBindGroup
                 /\ drawCalls[d].bindGroup = textureBindGroups[batch.texture]
                 /\ drawCalls[d].bindGroup.view = batch.texture

C2_Witness ==
    /\ AtReturn
    /\ \E d1, d2 \in 1..Len(drawCalls) :
          /\ drawCalls[d1].bindGroup.view # drawCalls[d2].bindGroup.view
          /\ drawCalls[d1].indexCount = 6 * MAX_SPRITES_PER_BATCH

\* C3: no batch ever holds more than MAX_SPRITES_PER_BATCH instances, and a
\* sprite arriving for a texture whose last batch is full goes to slot 0 of a
\* batch created for it, the full batch staying as it was
C3_BatchCapacity ==
    /\ [](\A e \in 1..Len(batchMap) : \A b \in 1..Len(batchMap[e].batches) :
             batchMap[e].batches[b].instances <= MAX_SPRITES_PER_BATCH)
    /\ [][\A e \in 1..Len(batchMap) :
             (/\ pc = "batching" /\ pc' = "batching" /\ cursor' = cursor + 1
              /\ cursor <= Len(sprites)
              /\ batchMap[e].texture = sprites[cursor].texture
              /\ batchMap[e].batches # <<>>
              /\ Last(batchMap[e].batches).instances = MAX_SPRITES_PER_BATCH)
             => LET old == batchMap[e].batches
                    new == batchMap'[e].batches
                IN  /\ Len(new) = Len(old) + 1
                    /\ SubSeq(new, 1, Len(old)) = old
                    /\ Last(new).instances = 1
                    /\ Last(new).vertices[0] = cursor]_vars

C3_Witness ==
    \E e \in 1..Len(batchMap) :
       /\ Len(batchMap[e].batches) = 2
       /\ batchMap[e].batches[1].instances = MAX_SPRITES_PER_BATCH
       /\ batchMap[e].batches[2].instances = 1
       /\ batchMap[e].batches[2].vertices[0] = MAX_SPRITES_PER_BATCH + 1

\* C4: of two sprites of one texture, the one earlier in the list is drawn no
\* later: same draw call and lower instance index, or an earlier draw call
C4_OrderWithinTexture ==
    DrawingDone =>
       \A a, b \in DOMAIN sprites :
          (a < b /\ sprites[a].texture = sprites[b].texture) =>
             \E da, db \in 1..Len(drawCalls) : \E ka, kb \in Slots :
                /\ Placed(a, da, ka)
                /\ Placed(b, db, kb)
                /\ da < db \/ (da = db /\ ka < kb)

C4_Witness ==
    /\ AtReturn
    /\ \E a, b, c \in DOMAIN sprites :
          /\ a < b /\ b < c
          /\ sprites[a].texture = sprites[b].texture
          /\ sprites[b].texture = sprites[c].texture
          /\ \E d \in 1..(Len(drawCalls) - 1) :
                Placed(a, d, 0) /\ Placed(b, d, 1) /\ Placed(c, d + 1, 0)

\* what the list's textures alone say the draw calls' textures are
RECURSIVE ExpectedTextures(_, _)
ExpectedTextures(list, i) ==
    IF i > Len(list) THEN <<>>
    ELSE LET t == list[i].texture
             n == CeilDiv(CountFor(list, t), MAX_SPRITES_PER_BATCH)
         IN  (IF \A j \in 1..(i - 1) : list[j].texture # t
              THEN [k \in 1..n |-> t] ELSE <<>>) \o ExpectedTextures(list, i + 1)

\* C5: the draw calls go texture group by texture group, the groups in the
\* order of each texture's first occurrence in the list; every sprite of an
\* earlier group is drawn before every sprite of a later one; z plays no part
C5_TextureGroupOrder ==
    DrawingDone =>
       /\ \A d1, d2 \in 1..Len(drawCalls) :
             d1 < d2 => FirstOccurrence(drawCalls[d1].texture)
                          <= FirstOccurrence(drawCalls[d2].texture)
       /\ [d \in 1..Len(drawCalls) |-> drawCalls[d].texture]
             = ExpectedTextures(sprites, 1)
       /\ \A a, b \in DOMAIN sprites :
             FirstOccurrence(sprites[a].texture)
                < FirstOccurrence(sprites[b].texture) =>
                \E da, db \in 1..Len(drawCalls) : \E ka, kb \in Slots :
                   Placed(a, da, ka) /\ Placed(b, db, kb) /\ da < db

C5_Witness ==
    /\ AtReturn
    /\ Len(sprites) = 4
    /\ sprites[1].texture = "A" /\ sprites[2].texture = "B"
    /\ sprites[3].texture = "A" /\ sprites[4].texture = "B"
    /\ sprites[2].z < sprites[3].z
    /\ \E d \in 1..Len(drawCalls) : Placed(3, d, 1) /\ Placed(2, d + 1, 0)

\* C6: a render call with an empty list makes no batch, no draw call, takes no
\* buffer from the pool, allocates none, creates no bind group, and still
\* begins one render pass with loadOp 'clear', ends it and submits one command
\* buffer
C6_EmptyList ==
    (AtReturn /\ sprites = <<>>) =>
       /\ batchMap = <<>>
       /\ drawCalls = <<>>
       /\ usedVertexBuffers = <<>>
       /\ call.pops = 0
       /\ call.allocs = 0
       /\ Len(vertexBuffers) = call.poolAtStart
       /\ call.creates = 0
       /\ Len(passes) = 1
       /\ passes[1].loadOp = "clear"
       /\ passEnded = 1
       /\ submitted = <<1>>

C6_Witness ==
    /\ AtReturn
    /\ sprites = <<>>
    /\ frames = 1
    /\ Len(vertexBuffers) >= 2
    /\ seen # {}
    /\ submitted = <<1>>

CachedTextures == {t \in Textures : textureBindGroups[t] # NoBindGroup}

\* C7: createBindGroup has been called once for every texture the batcher has
\* met and never for any other, whatever the number of sprites and calls; a
\* call of it happens only on a sprite whose texture was not met before
C7_OneBindGroupPerTexture ==
    /\ [](\A t \in Textures : created[t] = IF t \in seen THEN 1 ELSE 0)
    /\ [][\A t \in Textures :
             created'[t] # created[t] =>
                /\ pc = "batching"
                /\ sprites[cursor].texture = t
                /\ t \notin seen
                /\ created[t] = 0]_vars

C7_Witness ==
    /\ AtReturn
    /\ frames = 1
    /\ call.creates = 0
    /\ \E t \in Textures : CountFor(sprites, t) >= 2 /\ created[t] = 1

\* C8: an entry of the texture-to-bind-group cache, once set, is never removed
\* or changed, and the cached textures are exactly the textures met so far
C8_CacheAppendOnly ==
    /\ [](CachedTextures = seen)
    /\ [][\A t \in Textures :
             textureBindGroups[t] # NoBindGroup =>
                textureBindGroups'[t] = textureBindGroups[t]]_vars

C8_Witness ==
    /\ AtReturn
    /\ frames = 1
    /\ call.creates = 1
    /\ CachedTextures = Textures
    /\ CountFor(sprites, "A") > 0
    /\ CountFor(sprites, "B") > 0

BatchesOf(list) == SumOfChunks(TexturesOf(list), list)

InPool(buffer) == \E k \in 1..Len(vertexBuffers) : vertexBuffers[k] = buffer

NoDuplicates(s) == \A i, j \in 1..Len(s) : i # j => s[i] # s[j]

InUsed(buffer) ==
    \E k \in 1..Len(usedVertexBuffers) : usedVertexBuffers[k] = buffer

\* the k-th draw call of the current call reads the k-th buffer handed out,
\* and no two draw calls read the same buffer
OneBufferPerDrawCall ==
    /\ \A d \in 1..Len(drawCalls) :
          drawCalls[d].vertexBuffer = usedVertexBuffers[d]
    /\ \A d1, d2 \in 1..Len(drawCalls) :
          d1 # d2 => drawCalls[d1].vertexBuffer # drawCalls[d2].vertexBuffer

\* C11 as stated: at every point a buffer occurs at most once in the pool, at
\* most once in the used list and never in both, so no two batches of a frame
\* share a buffer
C11_Original ==
    /\ NoDuplicates(vertexBuffers)
    /\ NoDuplicates(usedVertexBuffers)
    /\ \A b \in 1..allocated : ~(InPool(b) /\ InUsed(b))
    /\ OneBufferPerDrawCall

\* C11: a buffer occurs at most once in the pool and at most once in the used
\* list, and every allocated buffer is in one of them; it is never in both
\* before the loop that returns the buffers, and in that loop exactly the
\* buffers already pushed back are in both; no two batches of a frame share a
\* buffer
C11_BufferPlaces ==
    /\ NoDuplicates(vertexBuffers)
    /\ NoDuplicates(usedVertexBuffers)
    /\ \A b \in 1..allocated : InPool(b) \/ InUsed(b)
    /\ pc # "returning" => \A b \in 1..allocated : ~(InPool(b) /\ InUsed(b))
    /\ pc = "returning" =>
          \A k \in 1..Len(usedVertexBuffers) :
             InPool(usedVertexBuffers[k]) <=> k < cursor
    /\ OneBufferPerDrawCall

C11_Witness ==
    /\ pc = "returning"
    /\ frames = 1
    /\ cursor = 2
    /\ Len(usedVertexBuffers) = 3
    /\ Len(drawCalls) = 3
    /\ call.pops = 2
    /\ call.allocs = 1

RECURSIVE SumIndexCounts(_)
SumIndexCounts(calls) ==
    IF calls = <<>> THEN 0 ELSE calls[1].indexCount + SumIndexCounts(Tail(calls))

\* the instance slots of the current call's batches that hold input sprite i
SlotsHolding(i) ==
    {<<e, b, k>> \in (1..Len(batchMap)) \X (1..MaxSprites) \X Slots :
        /\ b <= Len(batchMap[e].batches)
        /\ k < batchMap[e].batches[b].instances
        /\ batchMap[e].batches[b].vertices[k] = i}

\* C12: once the batcher loop is over every input sprite holds exactly one
\* instance slot of exactly one batch; every draw call asks for 6 indices per
\* instance of its batch; the index counts of a frame add up to 6 per sprite
C12_NoSpriteLost ==
    /\ pc \in {"drawing", "submitting", "returning"} =>
          /\ \A i \in DOMAIN sprites : Cardinality(SlotsHolding(i)) = 1
          /\ \A d \in 1..Len(drawCalls) :
                drawCalls[d].indexCount
                   = INDICES_PER_SPRITE * DrawOrder(batchMap)[d].instances
    /\ DrawingDone => SumIndexCounts(drawCalls) = INDICES_PER_SPRITE * Len(sprites)

C12_Witness ==
    /\ AtReturn
    /\ Len(sprites) = MAX_SPRITES_PER_BATCH + 2
    /\ CountFor(sprites, "A") = MAX_SPRITES_PER_BATCH + 1
    /\ Len(drawCalls) = 3
    /\ SumIndexCounts(drawCalls) = 6 * (MAX_SPRITES_PER_BATCH + 2)

\* ------------------------------------------------- createContext alone
InitContext ==
    /\ InitPipeline
    /\ SoundDevice
    /\ WriterOff
    /\ cpc = "start"
    /\ cenv \in ContextEnvs
    /\ clog = NoContextCalls
    /\ cresult = NoContext

\* createContext(canvas) up to its first await: navigator.gpu.requestAdapter()
RequestAdapter ==
    /\ cpc = "start"
    /\ clog' = [clog EXCEPT !.requestAdapter = @ + 1]
    /\ cpc' = "awaitAdapter"
    /\ UNCHANGED <<cenv, cresult, pipelineVars, writerVars>>

\* the adapter promise settles: throw without an adapter, else
\* adapter.requestDevice() up to the second await
RequestDevice ==
    /\ cpc = "awaitAdapter"
    /\ IF AdapterMissing(cenv)
       THEN /\ cresult' = Rejected("Could not request WebGPU adapter!")
            /\ cpc' = "settled"
            /\ UNCHANGED clog
       ELSE /\ clog' = [clog EXCEPT !.requestDevice = @ + 1]
            /\ cpc' = "awaitDevice"
            /\ UNCHANGED cresult
    /\ UNCHANGED <<cenv, pipelineVars, writerVars>>

\* the device promise settles: a rejection goes to the caller; else
\* getContext('webgpu'), throw without a context, else size the canvas,
\* configure the context, build the projection view matrix and return
ConfigureContext ==
    /\ cpc = "awaitDevice"
    /\ IF ~cenv.device
       THEN /\ cresult' = Rejected("requestDevice rejected")
            /\ UNCHANGED clog
       ELSE IF ContextMissing(cenv)
       THEN /\ cresult' = Rejected("Could not request WebGPU context!")
            /\ clog' = [clog EXCEPT !.getContext = @ + 1]
       ELSE /\ cresult' = ContextValue(cenv)
            /\ clog' = [clog EXCEPT !.getContext = @ + 1,
                                    !.configure = @ + 1,
                                    !.projectionViewMatrix = @ + 1]
    /\ cpc' = "settled"
    /\ UNCHANGED <<cenv, pipelineVars, writerVars>>

NextContext ==
    \/ RequestAdapter
    \/ RequestDevice
    \/ ConfigureContext

SpecContext == InitContext /\ [][NextContext]_vars

\* ---------------------------------------- properties of the vertex writer
Written == wpc = "written"

\* the float at offset p of the batch the writer wrote into
W(p) == wBatch.vertices[p]

\* first float of the sprite just written: its instance index times 32
Base == (wBatch.instances - 1) * 32

\* the position stored for vertex j (0 top-left, 1 top-right, 2 bottom-right,
\* 3 bottom-left) of the sprite just written
WrittenPosition(j) == <<W(Base + 8 * j), W(Base + 8 * j + 1)>>

C14_UnrotatedRectangle ==
    (Written /\ wSprite.rotation = 0) =>
       /\ WrittenPosition(0) = <<Num(wSprite.x), Num(wSprite.y)>>
       /\ WrittenPosition(1) = <<Num(wSprite.x + wSprite.width), Num(wSprite.y)>>
       /\ WrittenPosition(2) = <<Num(wSprite.x + wSprite.width),
                                 Num(wSprite.y + wSprite.height)>>
       /\ WrittenPosition(3) = <<Num(wSprite.x), Num(wSprite.y + wSprite.height)>>
       /\ wRotateCalls = 0

C14_Witness ==
    /\ Written
    /\ wSprite.rotation = 0
    /\ wSprite.origin = <<Half, Half>>
    /\ wSprite.x = 3
    /\ wSprite.width = 4
    /\ WrittenPosition(2) = <<Num(7), Num(wSprite.y + 2)>>

\* the pivot the rotation is about, from the sprite's fields
PivotOf(sprite) ==
    <<RAdd(Num(sprite.x), RMul(sprite.origin[1], Num(sprite.width))),
      RAdd(Num(sprite.y), RMul(sprite.origin[2], Num(sprite.height)))>>

SquaredDistance(a, b) ==
    RAdd(RMul(RSub(a[1], b[1]), RSub(a[1], b[1])),
         RMul(RSub(a[2], b[2]), RSub(a[2], b[2])))

\* the corner of the unrotated rectangle that belongs to vertex j
PlainCorner(sprite, j) ==
    <<Num(sprite.x + (IF j \in {1, 2} THEN sprite.width ELSE 0)),
      Num(sprite.y + (IF j \in {2, 3} THEN sprite.height ELSE 0))>>

C16_TextureCoordinates ==
    Written =>
       LET tw == Num(wSprite.texture.width)
           th == Num(wSprite.texture.height)
           f  == wSprite.frame
           U(j) == W(Base + 8 * j + 2)
           V(j) == W(Base + 8 * j + 3)
       IN  /\ RMul(U(0), tw) = Num(f.x) /\ RMul(V(0), th) = Num(f.y)
           /\ RMul(U(1), tw) = Num(f.x + f.width) /\ RMul(V(1), th) = Num(f.y)
           /\ RMul(U(2), tw) = Num(f.x + f.width)
           /\ RMul(V(2), th) = Num(f.y + f.height)
           /\ RMul(U(3), tw) = Num(f.x) /\ RMul(V(3), th) = Num(f.y + f.height)
           /\ (/\ f.x = 0 /\ f.y = 0
               /\ f.width = wSprite.texture.width
               /\ f.height = wSprite.texture.height) =>
                 /\ <<U(0), V(0)>> = <<Num(0), Num(0)>>
                 /\ <<U(1), V(1)>> = <<Num(1), Num(0)>>
                 /\ <<U(2), V(2)>> = <<Num(1), Num(1)>>
                 /\ <<U(3), V(3)>> = <<Num(0), Num(1)>>

C16_Witness ==
    /\ Written
    /\ wSprite.frame = [x |-> 0, y |-> 0, width |-> 4, height |-> 2]
    /\ wSprite.texture = [width |-> 4, height |-> 2]
    /\ W(Base + 18) = Num(1)
    /\ W(Base + 19) = Num(1)
    /\ W(Base + 2) = Num(0)

\* C17: the four vertices of a sprite carry the same r, g, b, a: the sprite's
\* color[0], color[1], color[2] and alpha
C17_UniformTint ==
    Written =>
       \A j \in 0..3 :
          <<W(Base + 8 * j + 4), W(Base + 8 * j + 5), W(Base + 8 * j + 6),
            W(Base + 8 * j + 7)>>
             = <<wSprite.color[1], wSprite.color[2], wSprite.color[3],
                 wSprite.alpha>>

C17_Witness ==
    /\ Written
    /\ wSprite.color = <<Half, Num(0), Num(1)>>
    /\ wSprite.alpha = Half
    /\ W(Base + 28) = Half
    /\ W(Base + 29) = Num(0)
    /\ W(Base + 31) = Half

\* ----------------------------------------------------------- index data
\* the six vertex numbers of one quad
QuadPattern == <<0, 1, 2, 2, 3, 0>>

\* C18: at all times the index data holds 4i+0, 4i+1, 4i+2, 4i+2, 4i+3, 4i+0
\* at positions 6i .. 6i+5 for every slot i below MAX_SPRITES_PER_BATCH; with
\* the source's capacity of 10,000 every value is below 65536 and is stored
\* unwrapped; no step of a render call changes the index data
C18_IndexData ==
    /\ [](/\ DOMAIN indexBuffer = 0..(6 * MAX_SPRITES_PER_BATCH - 1)
          /\ \A i \in 0..(MAX_SPRITES_PER_BATCH - 1) :
                \A j \in 0..5 :
                   /\ indexBuffer[6 * i + j] = 4 * i + QuadPattern[j + 1]
                   /\ indexBuffer[6 * i + j] < 65536
          /\ (pc = "idle" /\ frames = 0) =>
                \A i \in 0..(SOURCE_MAX_SPRITES_PER_BATCH - 1) :
                   \A j \in 0..5 :
                      /\ QuadIndex(i, j) = 4 * i + QuadPattern[j + 1]
                      /\ QuadIndex(i, j) < 65536
                      /\ Uint16(QuadIndex(i, j)) = QuadIndex(i, j))
    /\ [][indexBuffer' = indexBuffer]_vars

C18_Witness ==
    /\ AtReturn
    /\ frames = 1
    /\ Len(drawCalls) >= 2
    /\ indexBuffer[6] = 4
    /\ indexBuffer[11] = 4
    /\ indexBuffer[10] = 7

\* C19: a render call that comes to its return has begun one render pass,
\* ended it once and made one queue.submit of one command buffer, whatever
\* the sprites, textures and batches; at no time has it done any of them twice
C19_OnePassOneSubmit ==
    /\ AtReturn =>
          /\ Len(passes) = 1
          /\ passEnded = 1
          /\ submitted = <<1>>
    /\ Len(passes) <= 1
    /\ passEnded <= 1
    /\ Len(submitted) <= 1
    /\ submitted # <<>> => passEnded = 1
    /\ passEnded = 1 => Len(passes) = 1

C19_Witness ==
    /\ AtReturn
    /\ Len(sprites) = 4
    /\ Len(batchMap) = 2
    /\ Len(drawCalls) = 3
    /\ Len(passes) = 1
    /\ passEnded = 1
    /\ submitted = <<1>>

\* the batch the draw loop stands at has no bind group in the cache
MissingAtCursor ==
    /\ cursor \in 1..Len(DrawOrder(batchMap))
    /\ textureBindGroups[DrawOrder(batchMap)[cursor].texture] = NoBindGroup

\* C20: when the draw loop comes to a batch whose texture has no bind group
\* in the cache the call throws at once: no draw call is ever issued without
\* a bind group, the batches drawn are the ones before that batch, the pass
\* is not ended and nothing is submitted
C20_ThrowOnMissingBindGroup ==
    /\ \A k \in 1..Len(drawCalls) : drawCalls[k].bindGroup # NoBindGroup
    /\ threw =>
          /\ pc = "idle"
          /\ MissingAtCursor
          /\ Len(drawCalls) = cursor - 1
          /\ \A k \in 1..Len(drawCalls) :
                drawCalls[k].texture = DrawOrder(batchMap)[k].texture
          /\ Len(passes) = 1
          /\ passEnded = 0
          /\ submitted = <<>>
    /\ (passEnded > 0 \/ submitted # <<>>) =>
          \A k \in 1..Len(DrawOrder(batchMap)) :
             textureBindGroups[DrawOrder(batchMap)[k].texture] # NoBindGroup
    /\ [][(pc = "drawing" /\ MissingAtCursor) =>
             (threw' /\ drawCalls' = drawCalls /\ passEnded' = 0
              /\ submitted' = <<>>)]_vars

C20_Witness ==
    /\ threw
    /\ Len(DrawOrder(batchMap)) = 3
    /\ cursor = 3
    /\ Len(drawCalls) = 2
    /\ passEnded = 0
    /\ submitted = <<>>

\* --------------------------------------------------------- createContext
\* C21: createContext ends in a thrown error when requestAdapter gives no
\* adapter and when the canvas gives no 'webgpu' context; in both cases, and
\* whenever it ends in an error, no WebGPUContext comes out, the context is
\* not configured, no projection view matrix buffer is made, and requestAdapter
\* was called once
C21_ContextFailure ==
    /\ clog.requestAdapter <= 1
    /\ cpc = "settled" =>
          /\ clog.requestAdapter = 1
          /\ ~cenv.adapter =>
                /\ cresult = [kind |-> "error",
                              message |-> "Could not request WebGPU adapter!"]
                /\ clog.requestDevice = 0
                /\ clog.getContext = 0
          /\ (cenv.adapter /\ cenv.device /\ ~cenv.webgpu) =>
                cresult = [kind |-> "error",
                           message |-> "Could not request WebGPU context!"]
          /\ cresult.kind = "error" =>
                /\ clog.configure = 0
                /\ clog.projectionViewMatrix = 0
          /\ cresult.kind = "context" =>
                /\ cenv.adapter /\ cenv.device /\ cenv.webgpu
                /\ clog.configure = 1
                /\ clog.projectionViewMatrix = 1
          /\ cresult.kind \in {"error", "context"}
    /\ cpc # "settled" => cresult = NoContext

C21_Witness ==
    /\ cpc = "settled"
    /\ cenv.adapter /\ cenv.device /\ ~cenv.webgpu
    /\ cresult.kind = "error"
    /\ clog = [requestAdapter |-> 1, requestDevice |-> 1, getContext |-> 1,
               configure |-> 0, projectionViewMatrix |-> 0]

\* ------------------------------------------------------ the vertex layout
\* the position of vertex j of the sprite at hand, rotated if rotation is set
PlainOrTurned(j) == Corners(wSprite)[j + 1]

\* the floats of one vertex that an attribute of the layout reads
AttributeFloats(attribute) ==
    LET first == attribute.offset \div 4
    IN  first..(first + FormatFloats(attribute.format) - 1)

\* what the layout makes of vertex j of the sprite just written: the floats
\* from j strides on, cut at the attribute's offset and width
ReadAttribute(j, a) ==
    LET attribute == vertexBufferLayout.attributes[a]
        start == Base + j * (vertexBufferLayout.arrayStride \div 4)
                      + attribute.offset \div 4
    IN  [k \in 1..FormatFloats(attribute.format) |-> W(start + k - 1)]

RECURSIVE SumInstances(_)
SumInstances(batches) ==
    IF batches = <<>> THEN 0
    ELSE batches[1].instances + SumInstances(Tail(batches))

C24_AllocateOnlyWhenEmpty ==
    /\ [](AtReturn =>
             LET b == Len(DrawOrder(batchMap))
                 p == call.poolAtStart
             IN  /\ call.allocs = (IF b > p THEN b - p ELSE 0)
                 /\ call.pops = (IF b < p THEN b ELSE p)
                 /\ call.allocs + call.pops = b)
    /\ [][allocated' > allocated =>
             (vertexBuffers = <<>> /\ allocated' = allocated + 1
              /\ vertexBuffers' = <<>>)]_vars
    /\ [][(pc = "drawing" /\ pc' = "drawing" /\ vertexBuffers # <<>>) =>
             (allocated' = allocated
              /\ Len(vertexBuffers') = Len(vertexBuffers) - 1)]_vars

C24_Witness ==
    /\ AtReturn
    /\ frames = 1
    /\ call.poolAtStart = 2
    /\ Len(DrawOrder(batchMap)) = 3
    /\ call.allocs = 1
    /\ call.pops = 2

\* ------------------------------------------------------ writes and uploads
\* C25: in a render call every batch's writes stay inside its array of
\* MAX_SPRITES_PER_BATCH * 32 floats; the regions k*32 .. k*32+31 of its
\* instances are disjoint; every region up to batch.instances was written
\* once, by one sprite that is in no other region of any batch, the written
\* regions being as many as the sprites batched, and no region beyond was
\* written; once the draw loop is over every batch's array was uploaded once
C25_WriteOnceUploadOnce ==
    [](
        LET order == DrawOrder(batchMap)
            written == IF pc = "batching" THEN cursor - 1 ELSE Len(sprites)
        IN  /\ \A d \in 1..Len(order) :
                  /\ order[d].instances \in 1..MAX_SPRITES_PER_BATCH
                  /\ DOMAIN order[d].vertices = 0..(MAX_SPRITES_PER_BATCH - 1)
                  /\ \A k \in 0..(order[d].instances - 1) :
                        /\ k * 32 >= 0
                        /\ k * 32 + 31 <= MAX_SPRITES_PER_BATCH * 32 - 1
                        /\ order[d].vertices[k] \in 1..written
                        /\ \A k2 \in 0..(order[d].instances - 1) :
                              k < k2 => k * 32 + 31 < k2 * 32
                        /\ \A d2 \in 1..Len(order) :
                              \A k2 \in 0..(order[d2].instances - 1) :
                                 <<d, k>> # <<d2, k2>> =>
                                    order[d].vertices[k] # order[d2].vertices[k2]
                  /\ \A k \in order[d].instances..(MAX_SPRITES_PER_BATCH - 1) :
                        order[d].vertices[k] = 0
            /\ SumInstances(order) = written
            /\ pc = "drawing" => Len(usedVertexBuffers) = cursor - 1
            /\ \A k \in 1..Len(drawCalls) :
                  drawCalls[k].uploaded = order[k].vertices
            /\ DrawingDone =>
                  /\ Len(usedVertexBuffers) = Len(order)
                  /\ Len(drawCalls) = Len(order)
                  /\ NoDuplicates(usedVertexBuffers))

C25_Witness ==
    /\ DrawingDone
    /\ Len(sprites) = 4
    /\ Len(DrawOrder(batchMap)) = 3
    /\ DrawOrder(batchMap)[1].instances = MAX_SPRITES_PER_BATCH
    /\ DrawOrder(batchMap)[1].vertices[0] = 1
    /\ DrawOrder(batchMap)[1].vertices[1] = 3
    /\ DrawOrder(batchMap)[2].instances = 1

\* ---------------------------------------------------------- no overlap
\* every buffer allocated so far is in the pool, once
AllBuffersPooled ==
    /\ {vertexBuffers[k] : k \in 1..Len(vertexBuffers)} = 1..allocated
    /\ Len(vertexBuffers) = allocated

\* C26: a render call is entered only when no render call is under way, and
\* it starts, and runs its batcher loop, with every buffer allocated so far
\* in the pool and none handed out
C26_NoOverlap ==
    /\ []((pc \in {"idle", "batching"}) =>
             (AllBuffersPooled /\ usedVertexBuffers = <<>>))
    /\ [][pc' = "batching" =>
             (pc \in {"idle", "batching"} /\ AllBuffersPooled)]_vars
    /\ [][(pc # "idle" /\ pc' # "idle") => sprites' = sprites]_vars

C26_Witness ==
    /\ pc = "batching"
    /\ cursor = 1
    /\ frames = 1
    /\ allocated = 3
    /\ AllBuffersPooled
    /\ Len(sprites) = 4

\* ----------------------------------------------- bind groups before drawing
\* C27: a texture's bind group is created when the first sprite with that
\* texture is batched, before the pass begins; every batch comes to the draw
\* loop with its bind group cached, every draw call binds the group of its own
\* texture, and the 'Texture bind group not found!' error is never raised
C27_BindGroupBeforeDraw ==
    /\ [](/\ ~threw
          /\ pc = "batching" =>
                \A i \in 1..Len(sprites) :
                   i < cursor => textureBindGroups[sprites[i].texture] # NoBindGroup
          /\ passes # <<>> =>
                \A i \in 1..Len(sprites) :
                   textureBindGroups[sprites[i].texture] # NoBindGroup
          /\ \A k \in 1..Len(drawCalls) :
                /\ drawCalls[k].bindGroup # NoBindGroup
                /\ drawCalls[k].bindGroup.view = drawCalls[k].texture
                /\ drawCalls[k].bindGroup = textureBindGroups[drawCalls[k].texture])
    /\ [][\A t \in Textures :
             created'[t] > created[t] =>
                /\ pc = "batching"
                /\ passes = <<>>
                /\ cursor <= Len(sprites)
                /\ sprites[cursor].texture = t
                /\ textureBindGroups[t] = NoBindGroup
                /\ textureBindGroups'[t] # NoBindGroup
                /\ \A i \in 1..(cursor - 1) : sprites[i].texture # t]_vars

C27_Witness ==
    /\ pc = "drawing"
    /\ frames = 1
    /\ call.creates = 1
    /\ Len(batchMap) = 2
    /\ Len(drawCalls) = 2
    /\ drawCalls[1].texture # drawCalls[2].texture
    /\ ~threw

\* ------------------------------------------------------- shape of batches
\* C28: every batch of the current call holds at least one instance, so no
\* draw call asks for 0 indices; of the batches of one texture all but the
\* last hold exactly MAX_SPRITES_PER_BATCH instances
C28_BatchesFilledInOrder ==
    [](
        /\ \A e \in 1..Len(batchMap) :
              LET batches == batchMap[e].batches
              IN  /\ batches # <<>>
                  /\ \A b \in 1..Len(batches) :
                        /\ batches[b].instances >= 1
                        /\ b < Len(batches) =>
                              batches[b].instances = MAX_SPRITES_PER_BATCH
        /\ drawCalls # <<>> =>
              LET order == DrawOrder(batchMap)
              IN  \A k \in 1..Len(drawCalls) :
                     /\ drawCalls[k].indexCount >= 6
                     /\ drawCalls[k].indexCount = 6 * order[k].instances)

C28_Witness ==
    /\ DrawingDone
    /\ Len(batchMap) = 1
    /\ Len(batchMap[1].batches) = 2
    /\ batchMap[1].batches[1].instances = MAX_SPRITES_PER_BATCH
    /\ batchMap[1].batches[2].instances = 1
    /\ drawCalls[2].indexCount = 6

\* -------------------------------------------------- what a draw call reads
\* the vertices that the first n index positions name
VerticesRead(n) == {indexBuffer[p] : p \in 0..(n - 1)}

\* C29: a draw call of 6 * instances indices uses index positions
\* 0 .. 6*instances-1, which name the vertices 0 .. 4*instances-1 and no
\* other; each of them lies in an instance slot that the bound buffer got from
\* this batch's array in this call and that holds a sprite of this call with
\* the batch's texture; no slot left over from an earlier frame is read
C29_DrawReadsOwnVertices ==
    [](
        drawCalls # <<>> =>
        LET order == DrawOrder(batchMap)
        IN
        \A k \in 1..Len(drawCalls) :
           LET batch == order[k]
               n == batch.instances
               drawCall == drawCalls[k]
           IN  /\ drawCall.indexCount = 6 * n
               /\ 0..(drawCall.indexCount - 1) \subseteq DOMAIN indexBuffer
               /\ \A p \in 0..(drawCall.indexCount - 1) : indexBuffer[p] <= 4 * n - 1
               /\ VerticesRead(drawCall.indexCount) = 0..(4 * n - 1)
               /\ \A v \in VerticesRead(drawCall.indexCount) :
                     LET slot == v \div 4
                     IN  /\ slot \in DOMAIN drawCall.uploaded
                         /\ drawCall.uploaded[slot] # Stale
                         /\ drawCall.uploaded[slot] = batch.vertices[slot]
                         /\ drawCall.uploaded[slot] \in 1..Len(sprites)
                         /\ sprites[drawCall.uploaded[slot]].texture = drawCall.texture
               /\ drawCall.vertexBuffer = usedVertexBuffers[k]
               /\ \A k2 \in 1..Len(usedVertexBuffers) :
                     k2 # k => usedVertexBuffers[k2] # drawCall.vertexBuffer)

C29_Witness ==
    /\ DrawingDone
    /\ frames = 1
    /\ call.pops = 2
    /\ Len(drawCalls) = 2
    /\ drawCalls[1].indexCount = 6
    /\ drawCalls[2].indexCount = 12
    /\ VerticesRead(drawCalls[1].indexCount) = 0..3

\* ------------------------------------------- draw calls and the sprite list
\* the batch map the batcher loop builds from a list when nothing else is taken
\* into account: sprites 1 .. n of the list added to an empty map
RECURSIVE BatchesFromList(_, _)
BatchesFromList(list, n) ==
    IF n = 0 THEN <<>>
    ELSE AddSprite(BatchesFromList(list, n - 1), n, list[n].texture)

\* texture, instance count and uploaded data of a draw call
DrawCallContent(drawCall) ==
    [texture |-> drawCall.texture,
     instances |-> drawCall.indexCount \div 6,
     uploaded |-> drawCall.uploaded]

\* the same three of the draw call a batch calls for
BatchContent(batch) ==
    [texture |-> batch.texture,
     instances |-> batch.instances,
     uploaded |-> batch.vertices]

\* C30: texture, instance count and uploaded data of the draw calls of a
\* render call are those that the call's sprite list alone determines,
\* whatever the earlier calls left in the bind group cache and in the pool;
\* so any two calls with the same list issue the same sequence
C30_DrawCallsFromListAlone ==
    [](
        (drawCalls # <<>> \/ DrawingDone) =>
           LET expected == DrawOrder(BatchesFromList(sprites, Len(sprites)))
           IN  /\ Len(drawCalls) <= Len(expected)
               /\ \A k \in 1..Len(drawCalls) :
                     DrawCallContent(drawCalls[k]) = BatchContent(expected[k])
               /\ DrawingDone => Len(drawCalls) = Len(expected))

C30_Witness ==
    /\ DrawingDone
    /\ frames = 1
    /\ call.creates = 0
    /\ call.pops = 2
    /\ call.allocs = 1
    /\ Len(drawCalls) = 3
    /\ drawCalls[1].vertexBuffer = 2
    /\ DrawCallContent(drawCalls[3]).instances = 1

====
